---- MODULE Spec2Model ----
(***************************************************************************)
(* The crawl-to-index pipeline of backend/crawlers/crawler.py              *)
(* (scrape_urlList: the url queue, the dedup set, the worker threads)      *)
(* and the index store of backend/dataStructures/thicctable.py.            *)
(***************************************************************************)
EXTENDS Integers, Sequences, FiniteSets, Bags, TLC

(***************************************************************************)
(* Bounds of the model.                                                    *)
(***************************************************************************)
MaxSeeds == 10      \* longest seed list of pairwise distinct locations
MaxShort == 2       \* longest seed list drawn freely (duplicates, raw forms)
MaxDepth == 2       \* queueDepth ranges over 1..MaxDepth
MaxLinks == 3       \* most links the root document discovers
MaxScore == 3       \* page scores range over 1..MaxScore
MaxPostings == 3    \* most page tuples held by the table at a time
MaxBucketed == 4    \* most page tuples held by a table that bucket_page fills

(***************************************************************************)
(* Program constants.                                                      *)
(***************************************************************************)
SaveEvery == 10     \* crawler.py:68, scrapeMetrics.count % 10

\* Thread 0 is the thread that runs scrape_urlList; the others are the worker
\* threads, of which the first workerNum are spawned.
Workers == {1, 2}
Threads == {0} \cup Workers

Heads == {"", "www.", "http://www."}
Hosts == 1..(MaxSeeds + MaxLinks)
U(h) == <<"http://www.", h>>
ShortHosts == 1..2
RawUrls == Heads \X ShortHosts

(***************************************************************************)
(* urlAnalyzer.fix_url (crawler.py:84).  urlAnalyzer.py defines no         *)
(* fix_url; it is taken as normalize(raw) -> Location, deterministic and   *)
(* idempotent, shaped after urlAnalyzer.clean_url: a url that starts with  *)
(* http is kept, www gets the scheme, anything else gets scheme and www.   *)
(***************************************************************************)
fix_url(u) ==
    IF u[1] = "http://www." THEN u
    ELSE IF u[1] = "www." THEN <<"http://" \o "www.", u[2]>>
    ELSE <<"http://www." \o u[1], u[2]>>

RECURSIVE MapFix(_)
MapFix(s) == IF s = <<>> THEN <<>> ELSE <<fix_url(Head(s))>> \o MapFix(Tail(s))

(***************************************************************************)
(* What htmlAnalyzer.scrape_url finds at a location: pageList[3], the list *)
(* of links of the page.  The root document (host 1) links to the next     *)
(* fanout hosts, every other document links nowhere.                       *)
(***************************************************************************)
Links(fan, u) ==
    IF u = U(1) THEN [i \in 1..fan |-> U(i + 1)] ELSE <<>>

(***************************************************************************)
(* The locations whose scrape may raise (a fetch or parse error); the      *)
(* scrape of any other location returns.                                   *)
(***************************************************************************)
Flaky == {U(1), U(2), U(SaveEvery)}

VARIABLES
    urlList,        \* scrape_urlList's argument; cleaned at crawler.py:84
    queueDepth,     \* argument queueDepth
    workerNum,      \* argument workerNum
    reseed,         \* whether crawler.py:60 (enqueue of the page's links) is active
    fanout,         \* the web: number of links on the root document
    urlQueue,       \* Queue.queue of urlQueue
    unfinished,     \* Queue.unfinished_tasks of urlQueue
    scrapedUrls,    \* set of urls already enqueued
    processed,      \* Metrics: pages scraped without error
    errors,         \* Metrics: pages whose scrape raised
    testSimple,     \* Simple_List.data: the bag of page lists added (order not kept)
    files,          \* the checkpoint files written by testSimple.save: name -> data
    pc,             \* where each thread stands
    url,            \* each worker's local url
    enqList,        \* enqueue_urlList's argument, per calling thread
    enqIdx,         \* position of enqueue_urlList's for loop, per calling thread
    gets,           \* history: number of urlQueue.get() that returned
    dones,          \* history: number of urlQueue.task_done() calls
    fetched,        \* history: location -> number of scrape_url calls on it
    putCount,       \* history: location -> number of urlQueue.put on it
    failed,         \* history: worker -> its current iteration's scrape raised
    callers,        \* history: threads that have run enqueue_urlList's for loop
    topDict,        \* Thicctable.topDict: key -> list of page tuples (score, page)
    last,           \* history: the last Thicctable call, and topDict before it
    snapshot,       \* the file f"{outPath}.json" of Thicctable.save and load
    cancelled,      \* the crawl-wide cancellation signal of the design has been raised
    driver,         \* where the script test.py stands
    freqDict,       \* build_corr_dict's argument freqDict: token -> how frequent it is
    bufferSize,     \* build_corr_dict's argument bufferSize
    heap,           \* the Counter objects made at knowledgeBuilder.py:203: object -> counts
    emptyTokenDict, \* build_corr_dict's emptyTokenDict: token -> Counter object
    curTokenDict,   \* build_corr_dict's curTokenDict: token -> Counter object
    pageI,          \* build_corr_dict's i: the number of the page that its loop reads next
    tablets         \* the files saved under TEMP_FOLDER_PATH: name -> token -> counts

crawlVars == <<urlList, queueDepth, workerNum, reseed, fanout, urlQueue, unfinished,
               scrapedUrls, processed, errors, testSimple, files, pc, url,
               enqList, enqIdx, gets, dones, fetched, putCount, failed, callers,
               cancelled>>

tableVars == <<topDict, last, snapshot, driver>>

builderVars == <<freqDict, bufferSize, heap, emptyTokenDict, curTokenDict, pageI, tablets>>

vars == <<crawlVars, tableVars, builderVars>>

(***************************************************************************)
(* Seed lists: every list of at most MaxShort raw urls over two hosts, and *)
(* the lists U(1), ..., U(n) of pairwise distinct locations that are long  *)
(* enough for a checkpoint (crawler.py:68) to fall due.                    *)
(***************************************************************************)
ShortLists == UNION {[1..n -> RawUrls] : n \in 0..MaxShort}
LongLists == {[i \in 1..n |-> U(i)] : n \in SaveEvery..MaxSeeds}
SeedLists == ShortLists \cup LongLists

(***************************************************************************)
(* scrape_urlList up to the spawning of the workers (crawler.py:31-81).    *)
(***************************************************************************)
InitCrawl ==
    /\ urlList \in SeedLists
    /\ queueDepth \in 1..MaxDepth
    /\ workerNum \in Workers
    /\ reseed \in IF urlList \in ShortLists THEN BOOLEAN ELSE {FALSE}
    /\ fanout \in IF reseed THEN 0..MaxLinks ELSE {0}
    /\ urlQueue = <<>>
    /\ unfinished = 0
    /\ scrapedUrls = {}
    /\ processed = 0
    /\ errors = 0
    /\ testSimple = EmptyBag
    /\ files = <<>>
    /\ pc = [t \in Threads |-> IF t = 0 THEN "fix"
                               ELSE IF t <= workerNum THEN "get" ELSE "off"]
    /\ url = [w \in Workers |-> <<>>]
    /\ enqList = [t \in Threads |-> <<>>]
    /\ enqIdx = [t \in Threads |-> 0]
    /\ gets = 0
    /\ dones = 0
    /\ fetched = [h \in Hosts |-> 0]
    /\ putCount = [h \in Hosts |-> 0]
    /\ failed = [w \in Workers |-> FALSE]
    /\ callers = {}
    /\ cancelled = FALSE

(***************************************************************************)
(* queue.Queue: put waits while maxsize > 0 and qsize() >= maxsize, and    *)
(* counts an unfinished task; get waits while the queue is empty;          *)
(* task_done takes one unfinished task off; join waits until none is left. *)
(***************************************************************************)
\* a put that never waits
QueueNeverFull == TRUE

QueueHasRoom == (queueDepth > 0) => (Len(urlQueue) < queueDepth)

AfterPut(n) == n + 1

AfterTaskDone(n) == n - 1

\* a join that only waits for the queue to be empty
JoinWhenEmpty == urlQueue = <<>>

JoinReady == unfinished = 0

\* a membership test that lets every url through
NotScrapedAlways(u) == TRUE

\* crawler.py:46, the membership test of enqueue_urlList
NotScraped(u) == u \notin scrapedUrls

\* Metrics.count as crawler.py:68-73 reads it: the number of urls analyzed
Count == processed + errors

\* crawler.py:68
CheckpointDue == Count % SaveEvery = 0

(***************************************************************************)
(* crawler.py:84-85: the seeds are cleaned and enqueue_urlList is called.  *)
(***************************************************************************)
Fix ==
    /\ pc[0] = "fix"
    /\ urlList' = MapFix(urlList)
    /\ enqList' = [enqList EXCEPT ![0] = MapFix(urlList)]
    /\ enqIdx' = [enqIdx EXCEPT ![0] = 1]
    /\ pc' = [pc EXCEPT ![0] = "test"]
    /\ UNCHANGED <<tableVars, builderVars, cancelled>>
    /\ UNCHANGED <<queueDepth, workerNum, reseed, fanout, urlQueue, unfinished,
                   scrapedUrls, processed, errors, testSimple, files, url,
                   gets, dones, fetched, putCount, failed, callers>>

(***************************************************************************)
(* enqueue_urlList (crawler.py:40-48), run by thread t: the head of the    *)
(* for loop with the membership test (45-46), the add to the set (47) and  *)
(* the blocking put (48) are three steps; another thread may run between   *)
(* any two of them.  When the list is exhausted the call returns: to the   *)
(* join of scrape_urlList, or to the metrics update of the worker.         *)
(***************************************************************************)
EnqTest(t) ==
    /\ pc[t] = "test"
    /\ callers' = callers \cup {t}
    /\ IF enqIdx[t] > Len(enqList[t])
         THEN /\ pc' = [pc EXCEPT ![t] = IF t = 0 THEN "join" ELSE "count"]
              /\ UNCHANGED enqIdx
         ELSE IF NotScraped(enqList[t][enqIdx[t]])
         THEN /\ pc' = [pc EXCEPT ![t] = "mark"]
              /\ UNCHANGED enqIdx
         ELSE /\ enqIdx' = [enqIdx EXCEPT ![t] = @ + 1]
              /\ UNCHANGED pc
    /\ UNCHANGED <<tableVars, builderVars, cancelled>>
    /\ UNCHANGED <<urlList, queueDepth, workerNum, reseed, fanout, urlQueue,
                   unfinished, scrapedUrls, processed, errors, testSimple, files,
                   url, enqList, gets, dones, fetched, putCount, failed>>

EnqMark(t) ==
    /\ pc[t] = "mark"
    /\ scrapedUrls' = scrapedUrls \cup {enqList[t][enqIdx[t]]}
    /\ pc' = [pc EXCEPT ![t] = "put"]
    /\ UNCHANGED <<tableVars, builderVars, cancelled>>
    /\ UNCHANGED <<urlList, queueDepth, workerNum, reseed, fanout, urlQueue,
                   unfinished, processed, errors, testSimple, files, url, enqList,
                   enqIdx, gets, dones, fetched, putCount, failed, callers>>

\* Queue.put past its wait: the item is appended and counted as unfinished
PutItem(t) ==
    /\ urlQueue' = Append(urlQueue, enqList[t][enqIdx[t]])
    /\ unfinished' = AfterPut(unfinished)
    /\ putCount' = [putCount EXCEPT ![enqList[t][enqIdx[t]][2]] = @ + 1]
    /\ enqIdx' = [enqIdx EXCEPT ![t] = @ + 1]
    /\ pc' = [pc EXCEPT ![t] = "test"]

\* crawler.py:48, urlQueue.put(url): on a full queue the thread suspends
EnqPut(t) ==
    /\ pc[t] = "put"
    /\ IF QueueHasRoom
         THEN PutItem(t)
         ELSE /\ pc' = [pc EXCEPT ![t] = "wait"]
              /\ UNCHANGED <<urlQueue, unfinished, putCount, enqIdx>>
    /\ UNCHANGED <<tableVars, builderVars, cancelled>>
    /\ UNCHANGED <<urlList, queueDepth, workerNum, reseed, fanout, scrapedUrls,
                   processed, errors, testSimple, files, url, enqList, gets, dones,
                   fetched, failed, callers>>

\* crawler.py:48, the suspended put resumes once a get has made room
EnqResume(t) ==
    /\ pc[t] = "wait"
    /\ QueueHasRoom
    /\ PutItem(t)
    /\ UNCHANGED <<tableVars, builderVars, cancelled>>
    /\ UNCHANGED <<urlList, queueDepth, workerNum, reseed, fanout, scrapedUrls,
                   processed, errors, testSimple, files, url, enqList, gets, dones,
                   fetched, failed, callers>>

(***************************************************************************)
(* worker (crawler.py:50-75).                                              *)
(***************************************************************************)
\* crawler.py:54, url = urlQueue.get()
Get(w) ==
    /\ pc[w] = "get"
    /\ urlQueue # <<>>
    /\ url' = [url EXCEPT ![w] = Head(urlQueue)]
    /\ urlQueue' = Tail(urlQueue)
    /\ gets' = gets + 1
    /\ failed' = [failed EXCEPT ![w] = FALSE]
    /\ pc' = [pc EXCEPT ![w] = "scrape"]
    /\ UNCHANGED <<tableVars, builderVars, cancelled>>
    /\ UNCHANGED <<urlList, queueDepth, workerNum, reseed, fanout, unfinished,
                   scrapedUrls, processed, errors, testSimple, files, enqList,
                   enqIdx, dones, fetched, putCount, callers>>

\* the links of the page enqueued whatever the configuration
AfterScrapeAlways == "test"

\* crawler.py:60: the links of the page are enqueued when the line is active
AfterScrape == IF reseed THEN "test" ELSE "count"

\* crawler.py:56-60: scrape_url returns and the page is added to testSimple, then
\* (line 60, when active) the page's links are enqueued; or scrape_url raises and
\* the except clause is entered (63-64).
Scrape(w) ==
    /\ pc[w] = "scrape"
    /\ fetched' = [fetched EXCEPT ![url[w][2]] = @ + 1]
    /\ \E ok \in (IF url[w] \in Flaky THEN BOOLEAN ELSE {TRUE}) :
         IF ok
         THEN /\ testSimple' = testSimple (+) SetToBag({url[w]})
              /\ enqList' = [enqList EXCEPT ![w] = Links(fanout, url[w])]
              /\ enqIdx' = [enqIdx EXCEPT ![w] = 1]
              /\ pc' = [pc EXCEPT ![w] = AfterScrape]
              /\ UNCHANGED failed
         ELSE /\ failed' = [failed EXCEPT ![w] = TRUE]
              /\ pc' = [pc EXCEPT ![w] = "count"]
              /\ UNCHANGED <<testSimple, enqList, enqIdx>>
    /\ UNCHANGED <<tableVars, builderVars, cancelled>>
    /\ UNCHANGED <<urlList, queueDepth, workerNum, reseed, fanout, urlQueue,
                   unfinished, scrapedUrls, processed, errors, files, url, gets,
                   dones, putCount, callers>>

\* Metrics.add(error): one more page processed, or one more error
MetricsAdd(error) ==
    /\ processed' = IF error THEN processed ELSE processed + 1
    /\ errors' = IF error THEN errors + 1 ELSE errors

\* a worker that counts its page only when the scrape returned
CountPageOkOnly(w) ==
    /\ pc[w] = "count"
    /\ IF failed[w] THEN UNCHANGED <<processed, errors>> ELSE MetricsAdd(FALSE)
    /\ pc' = [pc EXCEPT ![w] = "log"]
    /\ UNCHANGED <<tableVars, builderVars, cancelled>>
    /\ UNCHANGED <<urlList, queueDepth, workerNum, reseed, fanout, urlQueue,
                   unfinished, scrapedUrls, testSimple, files, url, enqList, enqIdx,
                   gets, dones, fetched, putCount, failed, callers>>

\* crawler.py:62 and 66
CountPage(w) ==
    /\ pc[w] = "count"
    /\ MetricsAdd(failed[w])
    /\ pc' = [pc EXCEPT ![w] = "log"]
    /\ UNCHANGED <<tableVars, builderVars, cancelled>>
    /\ UNCHANGED <<urlList, queueDepth, workerNum, reseed, fanout, urlQueue,
                   unfinished, scrapedUrls, testSimple, files, url, enqList, enqIdx,
                   gets, dones, fetched, putCount, failed, callers>>

\* crawler.py:68, and 73 when no checkpoint is due
Log(w) ==
    /\ pc[w] = "log"
    /\ pc' = [pc EXCEPT ![w] = IF CheckpointDue THEN "save" ELSE "task_done"]
    /\ UNCHANGED <<tableVars, builderVars, cancelled>>
    /\ UNCHANGED <<urlList, queueDepth, workerNum, reseed, fanout, urlQueue,
                   unfinished, scrapedUrls, processed, errors, testSimple, files,
                   url, enqList, enqIdx, gets, dones, fetched, putCount, failed,
                   callers>>

\* Simple_List.save(path): the data written under the path
SavedAs(name, data) ==
    [n \in DOMAIN files \cup {name} |-> IF n = name THEN data ELSE files[n]]

\* crawler.py:69: the checkpoint is written, or the write raises; nothing in
\* worker catches what is raised after the except clause, so the thread ends.
Save(w) ==
    /\ pc[w] = "save"
    /\ \E ok \in BOOLEAN :
         IF ok
         THEN /\ files' = SavedAs(Count, testSimple)
              /\ pc' = [pc EXCEPT ![w] = "clear"]
         ELSE /\ pc' = [pc EXCEPT ![w] = "dead"]
              /\ UNCHANGED files
    /\ UNCHANGED <<tableVars, builderVars, cancelled>>
    /\ UNCHANGED <<urlList, queueDepth, workerNum, reseed, fanout, urlQueue,
                   unfinished, scrapedUrls, processed, errors, testSimple, url,
                   enqList, enqIdx, gets, dones, fetched, putCount, failed, callers>>

\* crawler.py:70-73
Clear(w) ==
    /\ pc[w] = "clear"
    /\ testSimple' = EmptyBag
    /\ pc' = [pc EXCEPT ![w] = "task_done"]
    /\ UNCHANGED <<tableVars, builderVars, cancelled>>
    /\ UNCHANGED <<urlList, queueDepth, workerNum, reseed, fanout, urlQueue,
                   unfinished, scrapedUrls, processed, errors, files, url, enqList,
                   enqIdx, gets, dones, fetched, putCount, failed, callers>>

\* a worker that signals completion twice
TaskDoneTwice(w) ==
    /\ pc[w] = "task_done"
    /\ unfinished' = AfterTaskDone(AfterTaskDone(unfinished))
    /\ dones' = dones + 2
    /\ pc' = [pc EXCEPT ![w] = "get"]
    /\ UNCHANGED <<tableVars, builderVars, cancelled>>
    /\ UNCHANGED <<urlList, queueDepth, workerNum, reseed, fanout, urlQueue,
                   scrapedUrls, processed, errors, testSimple, files, url, enqList,
                   enqIdx, gets, fetched, putCount, failed, callers>>

\* crawler.py:75, urlQueue.task_done(), and back to the head of the loop
TaskDone(w) ==
    /\ pc[w] = "task_done"
    /\ unfinished' = AfterTaskDone(unfinished)
    /\ dones' = dones + 1
    /\ pc' = [pc EXCEPT ![w] = "get"]
    /\ UNCHANGED <<tableVars, builderVars, cancelled>>
    /\ UNCHANGED <<urlList, queueDepth, workerNum, reseed, fanout, urlQueue,
                   scrapedUrls, processed, errors, testSimple, files, url, enqList,
                   enqIdx, gets, fetched, putCount, failed, callers>>

\* crawler.py:88-90, urlQueue.join() returns and scrape_urlList returns True
Join ==
    /\ pc[0] = "join"
    /\ JoinReady
    /\ pc' = [pc EXCEPT ![0] = "returned"]
    /\ UNCHANGED <<tableVars, builderVars, cancelled>>
    /\ UNCHANGED <<urlList, queueDepth, workerNum, reseed, fanout, urlQueue,
                   unfinished, scrapedUrls, processed, errors, testSimple, files,
                   url, enqList, enqIdx, gets, dones, fetched, putCount, failed,
                   callers>>

\* no Thicctable is built by scrape_urlList (crawler.py:57 is inactive)
NoTable ==
    /\ topDict = <<>>
    /\ last = [op |-> "none"]
    /\ snapshot = [state |-> "absent"]
    /\ driver = "off"

\* no build_corr_dict is under way
NoBuild ==
    /\ freqDict = <<>>
    /\ bufferSize = 1
    /\ heap = <<>>
    /\ emptyTokenDict = <<>>
    /\ curTokenDict = <<>>
    /\ pageI = 0
    /\ tablets = <<>>

Init == InitCrawl /\ NoTable /\ NoBuild

Next ==
    \/ Fix
    \/ Join
    \/ \E t \in Threads : EnqTest(t)
    \/ \E t \in Threads : EnqMark(t)
    \/ \E t \in Threads : EnqPut(t)
    \/ \E t \in Threads : EnqResume(t)
    \/ \E w \in Workers : Get(w)
    \/ \E w \in Workers : Scrape(w)
    \/ \E w \in Workers : CountPage(w)
    \/ \E w \in Workers : Log(w)
    \/ \E w \in Workers : Save(w)
    \/ \E w \in Workers : Clear(w)
    \/ \E w \in Workers : TaskDone(w)

Spec == Init /\ [][Next]_vars

(***************************************************************************)
(* The crawl under the cancellation signal of the design.  Nothing in      *)
(* scrape_urlList raises, reads or waits for such a signal: worker is      *)
(* `while True` (crawler.py:52) around a get without timeout (54), and     *)
(* the threads are daemons that nobody stops (80).  The signal is a flag   *)
(* that the surroundings of the crawl raise at any time and that no step   *)
(* of the crawl reads.                                                     *)
(***************************************************************************)
Cancel ==
    /\ ~cancelled
    /\ cancelled' = TRUE
    /\ UNCHANGED <<tableVars, builderVars>>
    /\ UNCHANGED <<urlList, queueDepth, workerNum, reseed, fanout, urlQueue,
                   unfinished, scrapedUrls, processed, errors, testSimple, files,
                   pc, url, enqList, enqIdx, gets, dones, fetched, putCount, failed,
                   callers>>

CancelNext == Next \/ Cancel

SpecCancel == Init /\ [][CancelNext]_vars

(***************************************************************************)
(* Vocabulary of the claims about the crawler.                             *)
(***************************************************************************)
Spawned == 1..workerNum

\* the number of entries of the queue that are location u
Occ(q, u) == Cardinality({i \in DOMAIN q : q[i] = u})

\* the workers between a get and the task_done (or the death) that ends the iteration
InIteration == {w \in Workers : pc[w] \notin {"off", "get", "dead"}}

\* the workers that have dequeued a location and not yet called scrape_url on it
Holding(u) == {w \in Workers : pc[w] = "scrape" /\ url[w] = u}

\* the positions of thread t's list whose loop iteration is over
Passed(t) == {i \in DOMAIN enqList[t] : i < enqIdx[t]}

\* a thread suspended inside enqueue_urlList on a full queue
Suspended(t) == pc[t] \in {"put", "wait"} /\ ~QueueHasRoom

A == U(1)
B == U(2)
C == U(3)

\* C1: with a single caller of enqueue_urlList (the seeding thread), a location that
\* occurs twice in what is enqueued is put into the queue exactly once: while it is
\* not dequeued the queue holds exactly one entry for it, and the caller goes on.
C1_DedupOneCaller ==
    (callers \subseteq {0}) =>
        \A h \in Hosts :
            /\ putCount[h] <= 1
            /\ putCount[h] = Occ(urlQueue, U(h)) + Cardinality(Holding(U(h))) + fetched[h]
            /\ (\E i \in Passed(0) : enqList[0][i] = U(h)) => putCount[h] = 1

C1_Witness ==
    /\ callers = {0}
    /\ \E i, j \in Passed(0) :
         /\ i < j
         /\ enqList[0][i] = enqList[0][j]
         /\ Occ(urlQueue, enqList[0][i]) = 1
         /\ putCount[enqList[0][i][2]] = 1

C3_TaskDonePerGet ==
    gets = dones + Cardinality(InIteration)

\* C4: join's condition holds exactly when the queue is empty and every get has had
\* its task_done; once scrape_urlList has returned nothing is pending or in flight.
C4_Drain ==
    /\ JoinReady <=> (urlQueue = <<>> /\ gets = dones)
    /\ pc[0] = "returned" =>
         /\ urlQueue = <<>>
         /\ \A w \in Workers : pc[w] \in {"off", "get"}

C4_Witness ==
    /\ pc[0] = "returned"
    /\ JoinReady
    /\ gets = 2
    /\ dones = 2

\* C5: as the source stands (line 60 inactive) the crawl never stops short of the
\* return of scrape_urlList: until then some thread can take a step.
C5_Completion ==
    (~reseed /\ pc[0] # "returned") => ENABLED Next

C7_Backpressure ==
    [][ /\ Len(urlQueue) <= queueDepth
        /\ Len(urlQueue') <= queueDepth
        /\ \A t \in Threads :
             /\ (pc[t] \in {"put", "wait"} /\ Len(urlQueue) >= queueDepth)
                  => /\ pc'[t] \in {"put", "wait"}
                     /\ enqList'[t] = enqList[t]
                     /\ enqIdx'[t] = enqIdx[t]
                     /\ Len(urlQueue') <= Len(urlQueue)
             /\ (pc[t] \in {"put", "wait"} /\ pc'[t] \notin {"put", "wait"})
                  => urlQueue' = Append(urlQueue, enqList[t][enqIdx[t]])
      ]_vars

C7_Witness ==
    \E t \in Threads :
        /\ pc[t] = "wait"
        /\ QueueHasRoom
        /\ Len(urlQueue) = queueDepth - 1
        /\ enqList[t][enqIdx[t]] \in scrapedUrls

\* C8: a worker whose scrape raised is not stopped: it is never dead in the
\* iteration of the failed scrape.
C8_FailureIsolation ==
    \A w \in Workers : failed[w] => pc[w] # "dead"

Vocabulary == {"harvard", "yale", "mit"}
Pages == {[url |-> "a.org"], [url |-> "b.org"]}
Scores == 1..MaxScore
PageTuples == Scores \X Pages

get_score(pageTuple) == pageTuple[1]

Reverse(s) == [i \in 1..Len(s) |-> s[Len(s) + 1 - i]]

(***************************************************************************)
(* list.sort(key=..., reverse=...) of CPython: the list is reversed when   *)
(* reverse is set, sorted ascending by key with a stable insertion sort    *)
(* (each element is placed to the right of the elements whose key is not   *)
(* greater), and reversed again when reverse is set.                       *)
(***************************************************************************)
InsertRight(s, x) ==
    LET n == Cardinality({i \in DOMAIN s : get_score(s[i]) <= get_score(x)})
    IN  SubSeq(s, 1, n) \o <<x>> \o SubSeq(s, n + 1, Len(s))

RECURSIVE SortAscending(_)
SortAscending(s) ==
    IF s = <<>> THEN <<>>
    ELSE InsertRight(SortAscending(SubSeq(s, 1, Len(s) - 1)), s[Len(s)])

ListSort(s, reverse) ==
    IF reverse THEN Reverse(SortAscending(Reverse(s))) ELSE SortAscending(s)

\* a sort that leaves out reverse=True
SortedBucketAscending(s) == ListSort(s, FALSE)

\* a sort that is descending but leaves equal scores in reversed order
SortedBucketUnstable(s) == Reverse(SortAscending(s))

\* a sort that leaves the bucket as it stands
SortedBucketAsIs(s) == s

\* thicctable.py:68-69, self.topDict[key].sort(key=get_score, reverse=True)
SortedBucket(s) == ListSort(s, TRUE)

RECURSIVE SumLen(_, _)
SumLen(d, ks) ==
    IF ks = {} THEN 0
    ELSE LET k == CHOOSE x \in ks : TRUE IN Len(d[k]) + SumLen(d, ks \ {k})

\* the number of page tuples held by the table
Postings == SumLen(topDict, DOMAIN topDict)

\* what is remembered of a call: its name, its key, whether it raised KeyError,
\* and topDict as it was before the call
Called(op, key, raised) ==
    last' = [op |-> op, key |-> key, raised |-> raised, before |-> topDict]

\* thicctable.py:13-16, Thicctable(keys)
InitTable ==
    /\ \E keys \in {{"harvard"}, {"harvard", "yale"}} : topDict = [k \in keys |-> <<>>]
    /\ last = [op |-> "init"]
    /\ snapshot = [state |-> "absent"]
    /\ driver = "off"

\* an insert that makes the bucket of a key the table does not hold
insert_creating(key, pageTuple) ==
    /\ Postings < MaxPostings
    /\ topDict' = [k \in DOMAIN topDict \cup {key} |->
                      IF k = key
                        THEN (IF k \in DOMAIN topDict THEN topDict[k] ELSE <<>>) \o <<pageTuple>>
                        ELSE topDict[k]]
    /\ last' = [op |-> "insert_pageTuple", key |-> key, raised |-> FALSE,
                before |-> topDict, pageTuple |-> pageTuple]
    /\ UNCHANGED <<crawlVars, builderVars, snapshot, driver>>

\* thicctable.py:51-54, insert_pageTuple(key, pageTuple); self.topDict[key] raises
\* KeyError for a key the table does not hold
insert_pageTuple(key, pageTuple) ==
    /\ (key \in DOMAIN topDict) => (Postings < MaxPostings)
    /\ IF key \in DOMAIN topDict
         THEN /\ topDict' = [topDict EXCEPT ![key] = Append(@, pageTuple)]
              /\ last' = [op |-> "insert_pageTuple", key |-> key, raised |-> FALSE,
                          before |-> topDict, pageTuple |-> pageTuple]
         ELSE /\ UNCHANGED topDict
              /\ Called("insert_pageTuple", key, TRUE)
    /\ UNCHANGED <<crawlVars, builderVars, snapshot, driver>>

\* thicctable.py:65-70, sort_key(key)
sort_key(key) ==
    /\ IF key \in DOMAIN topDict
         THEN /\ topDict' = [topDict EXCEPT ![key] = SortedBucket(@)]
              /\ Called("sort_key", key, FALSE)
         ELSE /\ UNCHANGED topDict
              /\ Called("sort_key", key, TRUE)
    /\ UNCHANGED <<crawlVars, builderVars, snapshot, driver>>

\* the arguments n tried for the calls that take a count
Counts == (0 - 1)..(MaxPostings + 1)

Min(a, b) == IF a <= b THEN a ELSE b

Max(a, b) == IF a >= b THEN a ELSE b

\* a slice that ignores its bound
SliceAll(s, n) == s

\* Python's s[:n]: the first n elements, all of s when n exceeds its length, and
\* all but the last -n elements for a negative n
SliceTo(s, n) ==
    IF n >= 0 THEN SubSeq(s, 1, Min(n, Len(s))) ELSE SubSeq(s, 1, Max(Len(s) + n, 0))

\* a search that sorts the bucket before it reads it
search_sorting(key, n) ==
    /\ key \in DOMAIN topDict
    /\ topDict' = [topDict EXCEPT ![key] = SortedBucket(@)]
    /\ last' = [op |-> "search_full", key |-> key, raised |-> FALSE, before |-> topDict,
                n |-> n, result |-> SliceTo(SortedBucket(topDict[key]), n)]
    /\ UNCHANGED <<crawlVars, builderVars, snapshot, driver>>

\* thicctable.py:108-110, search_full(key, n): return self.topDict[key][:n]
search_full(key, n) ==
    /\ IF key \in DOMAIN topDict
         THEN last' = [op |-> "search_full", key |-> key, raised |-> FALSE,
                       before |-> topDict, n |-> n, result |-> SliceTo(topDict[key], n)]
         ELSE Called("search_full", key, TRUE)
    /\ UNCHANGED topDict
    /\ UNCHANGED <<crawlVars, builderVars, snapshot, driver>>

\* keys taken as small although their bucket has n page tuples
smallKeysInclusive(n) == {key \in DOMAIN topDict : Len(topDict[key]) <= n}

\* thicctable.py:31, smallKeys = [key for key in self.topDict if len(self.topDict[key]) < n]
smallKeys(n) == {key \in DOMAIN topDict : Len(topDict[key]) < n}

\* thicctable.py:29-35, kill_smalls(n): del self.topDict[key] for every small key
kill_smalls(n) ==
    /\ topDict' = [key \in DOMAIN topDict \ smallKeys(n) |-> topDict[key]]
    /\ last' = [op |-> "kill_smalls", raised |-> FALSE, before |-> topDict, n |-> n]
    /\ UNCHANGED <<crawlVars, builderVars, snapshot, driver>>

\* thicctable.py:24-27, remove_key(key): del self.topDict[key] raises KeyError for
\* a key the table does not hold
remove_key(key) ==
    /\ IF key \in DOMAIN topDict
         THEN /\ topDict' = [k \in DOMAIN topDict \ {key} |-> topDict[k]]
              /\ Called("remove_key", key, FALSE)
         ELSE /\ UNCHANGED topDict
              /\ Called("remove_key", key, TRUE)
    /\ UNCHANGED <<crawlVars, builderVars, snapshot, driver>>

\* pageObj.knowledgeTokens (thicctable.py:86) in the order of its iteration: the
\* lists of tokens of the vocabulary in which no token stands twice
TokenLists ==
    {s \in UNION {[1..n -> Vocabulary] : n \in 0..Cardinality(Vocabulary)} :
        \A i, j \in DOMAIN s : s[i] = s[j] => i = j}

\* pageRanker.score_single(pageObj, token), thicctable.py:90: the score the ranker
\* gives the page for the token
score_single(pageObj, token) ==
    IF pageObj.url = "a.org" /\ token = "harvard" THEN MaxScore ELSE 1

\* a loop that passes over a token whose bucket holds the page already
RECURSIVE BucketedOnce(_, _, _)
BucketedOnce(d, pageObj, pageTokens) ==
    IF pageTokens = <<>> THEN d
    ELSE LET token == Head(pageTokens)
             pageTuple == <<score_single(pageObj, token), pageObj>>
         IN  BucketedOnce(IF token \in DOMAIN d
                               /\ \A i \in DOMAIN d[token] : d[token][i][2] # pageObj
                            THEN [d EXCEPT ![token] = Append(@, pageTuple)]
                            ELSE d,
                          pageObj, Tail(pageTokens))

\* a loop that stands inside the try: the first token that is not a key ends it
RECURSIVE BucketedUntilError(_, _, _)
BucketedUntilError(d, pageObj, pageTokens) ==
    IF pageTokens = <<>> \/ Head(pageTokens) \notin DOMAIN d THEN d
    ELSE BucketedUntilError(
             [d EXCEPT ![Head(pageTokens)] =
                 Append(@, <<score_single(pageObj, Head(pageTokens)), pageObj>>)],
             pageObj, Tail(pageTokens))

\* thicctable.py:87-95, for token in pageTokens: try: score, build the tuple and
\* insert it; except Exception: print.  The KeyError of insert_pageTuple for a
\* token that is not a key is caught inside the loop, which goes on.
RECURSIVE Bucketed(_, _, _)
Bucketed(d, pageObj, pageTokens) ==
    IF pageTokens = <<>> THEN d
    ELSE LET token == Head(pageTokens)
             pageTuple == <<score_single(pageObj, token), pageObj>>
         IN  Bucketed(IF token \in DOMAIN d
                        THEN [d EXCEPT ![token] = Append(@, pageTuple)]
                        ELSE d,
                      pageObj, Tail(pageTokens))

\* thicctable.py:79-97, bucket_page(pageObj)
bucket_page(pageObj, pageTokens) ==
    /\ Postings + Cardinality({i \in DOMAIN pageTokens : pageTokens[i] \in DOMAIN topDict})
         <= MaxBucketed
    /\ topDict' = Bucketed(topDict, pageObj, pageTokens)
    /\ last' = [op |-> "bucket_page", raised |-> FALSE, before |-> topDict,
                pageObj |-> pageObj, pageTokens |-> pageTokens]
    /\ UNCHANGED <<crawlVars, builderVars, snapshot, driver>>

\* an add_key that keeps the bucket of a key the table already holds
add_key_keeping(key) ==
    /\ topDict' = [k \in DOMAIN topDict \cup {key} |->
                      IF k \in DOMAIN topDict THEN topDict[k] ELSE <<>>]
    /\ Called("add_key", key, FALSE)
    /\ UNCHANGED <<crawlVars, builderVars, snapshot, driver>>

\* thicctable.py:19-22, add_key(key): self.topDict.update({key:[]})
add_key(key) ==
    /\ topDict' = [k \in DOMAIN topDict \cup {key} |-> IF k = key THEN <<>> ELSE topDict[k]]
    /\ Called("add_key", key, FALSE)
    /\ UNCHANGED <<crawlVars, builderVars, snapshot, driver>>

\* whether json's encoder can write a page.  The encoder writes dict, list, tuple,
\* str, int, float, bool and None and raises TypeError for an object of any other
\* class; a page is an object of the class Page (test.py:61), read through its
\* attributes (thicctable.py:59, 86).
PageEncodes(pageObj) == FALSE

\* json.dump(self.topDict, FileObj) raises TypeError
DumpRaises(d) == \E key \in DOMAIN d : \E i \in DOMAIN d[key] : ~PageEncodes(d[key][i][2])

\* the JSON text of a table that json.dump can write, as the value json.load reads
\* from it: an object of arrays; a page tuple is written as an array as well
JsonValue(d) == [key \in DOMAIN d |-> [i \in DOMAIN d[key] |-> <<d[key][i][1], d[key][i][2]>>]]

\* thicctable.py:115-116: open(..., 'w+') empties the file and json.dump writes
\* the text piece by piece; when it raises, the file is left with the pieces
\* written so far, which are not a JSON text.  The field of remembers the table
\* the file was written from.
Dumped(d) ==
    IF DumpRaises(d)
      THEN [state |-> "truncated", of |-> d]
      ELSE [state |-> "complete", of |-> d, value |-> JsonValue(d)]

\* thicctable.py:113-117, save(outPath)
save ==
    /\ snapshot' = Dumped(topDict)
    /\ last' = [op |-> "save", raised |-> DumpRaises(topDict), before |-> topDict]
    /\ UNCHANGED topDict
    /\ UNCHANGED <<crawlVars, builderVars, driver>>

\* a load that adds what it reads to the table it finds
LoadedMerged(d, value) ==
    [key \in DOMAIN d \cup DOMAIN value |-> IF key \in DOMAIN value THEN value[key] ELSE d[key]]

\* thicctable.py:121, self.topDict = json.load(FileObj)
Loaded(d, value) == value

\* thicctable.py:119-123, load(inPath): open raises FileNotFoundError when there is
\* no file, json.load raises JSONDecodeError for a text that is not JSON
load ==
    /\ IF snapshot.state = "complete"
         THEN /\ topDict' = Loaded(topDict, snapshot.value)
              /\ last' = [op |-> "load", raised |-> FALSE, before |-> topDict]
         ELSE /\ UNCHANGED topDict
              /\ last' = [op |-> "load", raised |-> TRUE, before |-> topDict]
    /\ UNCHANGED snapshot
    /\ UNCHANGED <<crawlVars, builderVars, driver>>

\* a loop over the keys that passes over one of them
SortedAllButOne(d) == [key \in DOMAIN d |-> IF key = "yale" THEN d[key] ELSE SortedBucket(d[key])]

\* thicctable.py:76-77, for key in self.topDict: self.sort_key(key)
SortedAll(d) == [key \in DOMAIN d |-> SortedBucket(d[key])]

\* thicctable.py:72-77, sort_all()
sort_all ==
    /\ topDict' = SortedAll(topDict)
    /\ last' = [op |-> "sort_all", raised |-> FALSE, before |-> topDict]
    /\ UNCHANGED <<crawlVars, builderVars, snapshot, driver>>

\* thicctable.py:38-44, clear_key(key): self.topDict[key] = [], an assignment,
\* which makes the entry when the table does not hold the key
clear_key(key) ==
    /\ topDict' = [k \in DOMAIN topDict \cup {key} |-> IF k = key THEN <<>> ELSE topDict[k]]
    /\ Called("clear_key", key, FALSE)
    /\ UNCHANGED <<crawlVars, builderVars, snapshot, driver>>

\* thicctable.py:46-49, clip_key(key, n): self.topDict[key] = self.topDict[key][:n];
\* the subscript on the right raises KeyError for a key the table does not hold
clip_key(key, n) ==
    /\ IF key \in DOMAIN topDict
         THEN /\ topDict' = [topDict EXCEPT ![key] = SliceTo(@, n)]
              /\ last' = [op |-> "clip_key", key |-> key, raised |-> FALSE,
                          before |-> topDict, n |-> n]
         ELSE /\ UNCHANGED topDict
              /\ Called("clip_key", key, TRUE)
    /\ UNCHANGED <<crawlVars, builderVars, snapshot, driver>>

\* a filter that drops only the first page tuple of the url
RECURSIVE FilteredFirst(_, _)
FilteredFirst(s, pageUrl) ==
    IF s = <<>> THEN <<>>
    ELSE IF Head(s)[2].url = pageUrl THEN Tail(s)
    ELSE <<Head(s)>> \o FilteredFirst(Tail(s), pageUrl)

\* thicctable.py:61-62, list(filter(check_url, self.topDict[key])), where
\* check_url(pageTuple) is pageTuple[1].url != url
RECURSIVE Filtered(_, _)
Filtered(s, pageUrl) ==
    IF s = <<>> THEN <<>>
    ELSE IF Head(s)[2].url # pageUrl THEN <<Head(s)>> \o Filtered(Tail(s), pageUrl)
    ELSE Filtered(Tail(s), pageUrl)

\* thicctable.py:56-63, remove_value(key, url), url as pageUrl; self.topDict[key] raises KeyError
\* for a key the table does not hold
remove_value(key, pageUrl) ==
    /\ IF key \in DOMAIN topDict
         THEN /\ topDict' = [topDict EXCEPT ![key] = Filtered(@, pageUrl)]
              /\ last' = [op |-> "remove_value", key |-> key, raised |-> FALSE,
                          before |-> topDict, url |-> pageUrl]
         ELSE /\ UNCHANGED topDict
              /\ Called("remove_value", key, TRUE)
    /\ UNCHANGED <<crawlVars, builderVars, snapshot, driver>>

\* no crawl is under way while the table is exercised
NoCrawl ==
    /\ urlList = <<>>
    /\ queueDepth = 1
    /\ workerNum = 1
    /\ reseed = FALSE
    /\ fanout = 0
    /\ urlQueue = <<>>
    /\ unfinished = 0
    /\ scrapedUrls = {}
    /\ processed = 0
    /\ errors = 0
    /\ testSimple = EmptyBag
    /\ files = <<>>
    /\ pc = [t \in Threads |-> "off"]
    /\ url = [w \in Workers |-> <<>>]
    /\ enqList = [t \in Threads |-> <<>>]
    /\ enqIdx = [t \in Threads |-> 0]
    /\ gets = 0
    /\ dones = 0
    /\ fetched = [h \in Hosts |-> 0]
    /\ putCount = [h \in Hosts |-> 0]
    /\ failed = [w \in Workers |-> FALSE]
    /\ callers = {}
    /\ cancelled = FALSE

TableInit == InitTable /\ NoCrawl /\ NoBuild

TableNext ==
    \/ \E key \in Vocabulary, pageTuple \in PageTuples : insert_pageTuple(key, pageTuple)
    \/ \E key \in Vocabulary : sort_key(key)
    \/ \E key \in Vocabulary, n \in Counts : search_full(key, n)

SpecTable == TableInit /\ [][TableNext]_vars

(***************************************************************************)
(* The table under the calls that remove keys.  What the page tuples hold  *)
(* plays no part in them: they are drawn from two scores of one page.      *)
(***************************************************************************)
FewTuples == {1, MaxScore} \X {[url |-> "a.org"]}

PruneNext ==
    \/ \E key \in Vocabulary, pageTuple \in FewTuples : insert_pageTuple(key, pageTuple)
    \/ \E n \in Counts : kill_smalls(n)
    \/ \E key \in Vocabulary : remove_key(key)
    \/ sort_all
    \/ \E key \in Vocabulary : clear_key(key)
    \/ \E key \in Vocabulary, n \in Counts : clip_key(key, n)

SpecPrune == TableInit /\ [][PruneNext]_vars

(***************************************************************************)
(* The table under bucket_page.                                            *)
(***************************************************************************)
BucketNext ==
    \/ \E pageObj \in Pages, pageTokens \in TokenLists : bucket_page(pageObj, pageTokens)

SpecBucket == TableInit /\ [][BucketNext]_vars

(***************************************************************************)
(* The table under save and load.  One page tuple stands for all: what a   *)
(* page tuple holds plays no part in them.                                 *)
(***************************************************************************)
OneTuple == {MaxScore} \X {[url |-> "a.org"]}

SnapshotNext ==
    \/ \E key \in Vocabulary, pageTuple \in OneTuple : insert_pageTuple(key, pageTuple)
    \/ \E key \in Vocabulary : add_key(key)
    \/ \E key \in Vocabulary : remove_key(key)
    \/ save
    \/ load

SpecSnapshot == TableInit /\ [][SnapshotNext]_vars

(***************************************************************************)
(* The table under remove_value.  The page tuples are drawn from two       *)
(* scores of every page; the urls asked for are those of the pages and one *)
(* that no page has.                                                       *)
(***************************************************************************)
TwoScoreTuples == {1, MaxScore} \X Pages

Urls == {pageObj.url : pageObj \in Pages} \cup {"c.org"}

RemoveNext ==
    \/ \E key \in Vocabulary, pageTuple \in TwoScoreTuples : insert_pageTuple(key, pageTuple)
    \/ \E key \in Vocabulary : sort_key(key)
    \/ \E key \in Vocabulary, pageUrl \in Urls : remove_value(key, pageUrl)

SpecRemove == TableInit /\ [][RemoveNext]_vars

(***************************************************************************)
(* The script test.py from line 37 on, with the table built from the       *)
(* knowledge set (line 16) and lines 1-36 taken as run.  The loop of lines *)
(* 37-76 builds a page for a line of the file and calls bucket_page (75);  *)
(* after the loop database.kill_empties() (80) raises AttributeError,      *)
(* since Thicctable defines no kill_empties: the script ends there, and    *)
(* sort_all (85), all_lengths (90) and the queries (95-103) are never      *)
(* reached.  A script runs on while it can take a step.                    *)
(***************************************************************************)
DriverInit ==
    /\ \E keys \in {{"harvard"}, {"harvard", "yale"}} : topDict = [k \in keys |-> <<>>]
    /\ last = [op |-> "init"]
    /\ snapshot = [state |-> "absent"]
    /\ driver = "bucket"
    /\ NoCrawl
    /\ NoBuild

\* test.py:37-76, one round of the loop over the lines of the file
DriverBucket(pageObj, pageTokens) ==
    /\ driver = "bucket"
    /\ bucket_page(pageObj, pageTokens)

\* test.py:80, database.kill_empties(): AttributeError, which nothing catches
DriverKillEmpties ==
    /\ driver = "bucket"
    /\ driver' = "crashed"
    /\ last' = [op |-> "kill_empties", raised |-> TRUE, before |-> topDict]
    /\ UNCHANGED <<topDict, snapshot, crawlVars, builderVars>>

DriverNext ==
    \/ \E pageObj \in Pages, pageTokens \in TokenLists : DriverBucket(pageObj, pageTokens)
    \/ DriverKillEmpties

SpecDriver == DriverInit /\ [][DriverNext]_vars /\ WF_vars(DriverNext)

(***************************************************************************)
(* build_corr_dict of models/knowledge/knowledgeBuilder.py, from the       *)
(* creation of emptyTokenDict to the end of the loop over the pages.  A    *)
(* Counter is an object: heap maps each Counter object to its counts, and  *)
(* a dict holds the objects, not the counts.  The normalised values of the *)
(* tokens are positive numbers; each one is counted as 1.                  *)
(***************************************************************************)
MaxPages == 3

BufferSizes == {1, 2}

Frequencies == {"rare", "common"}

\* the helper corrable: a token above freqCutoff is left out
corrable(token, freqTuple) == IF freqTuple = "common" THEN FALSE ELSE TRUE

\* the Counter() made for token by the comprehension of emptyTokenDict
NewCounter(token) == <<"Counter", token>>

\* dict.copy() makes a new dict that holds the same objects
DictCopy(d) == [token \in DOMAIN d |-> d[token]]

\* Counter.update(other): the values of other are added to the counts
CounterUpdate(counts, others) ==
    [otherToken \in (DOMAIN counts) \cup others |->
        (IF otherToken \in DOMAIN counts THEN counts[otherToken] ELSE 0)
        + (IF otherToken \in others THEN 1 ELSE 0)]

\* the helper norm_pageTokens: the tokens of the page that emptyTokenDict holds
norm_pageTokens(pageTokens) == pageTokens \cap (DOMAIN emptyTokenDict)

\* the loop over normedTokens.keys(): the Counter that curTokenDict holds
\* for a token of the page is updated with the other tokens of the page
UpdatedHeap(normedTokens) ==
    [obj \in DOMAIN heap |->
        LET tokens == {token \in normedTokens \cap (DOMAIN curTokenDict) :
                           curTokenDict[token] = obj}
        IN  IF tokens = {} THEN heap[obj]
            ELSE CounterUpdate(heap[obj], normedTokens \ tokens)]

\* the state at the start of the loop over the pages
BuildInit ==
    /\ freqDict \in [Vocabulary -> Frequencies]
    /\ bufferSize \in BufferSizes
    /\ emptyTokenDict = [token \in {t \in Vocabulary : corrable(t, freqDict[t])}
                            |-> NewCounter(token)]
    /\ heap = [obj \in {NewCounter(t) : t \in {t \in Vocabulary : corrable(t, freqDict[t])}}
                  |-> <<>>]
    /\ curTokenDict = DictCopy(emptyTokenDict)
    /\ pageI = 0
    /\ tablets = <<>>
    /\ NoCrawl
    /\ NoTable

\* one pass of the loop over the pages, on a page that holds pageTokens
ReadPage(pageTokens) ==
    /\ pageI < MaxPages
    /\ heap' = UpdatedHeap(norm_pageTokens(pageTokens))
    /\ IF pageI % bufferSize = 0 /\ pageI > 0
       THEN /\ tablets' = tablets @@
                  (pageI :> [token \in DOMAIN curTokenDict |-> heap'[curTokenDict[token]]])
            /\ curTokenDict' = DictCopy(emptyTokenDict)
       ELSE UNCHANGED <<tablets, curTokenDict>>
    /\ pageI' = pageI + 1
    /\ UNCHANGED <<freqDict, bufferSize, emptyTokenDict>>
    /\ UNCHANGED <<crawlVars, tableVars>>

BuildNext == \E pageTokens \in SUBSET Vocabulary : ReadPage(pageTokens)

SpecBuild == BuildInit /\ [][BuildNext]_vars

(***************************************************************************)
(* Vocabulary of the claims about the table.                               *)
(***************************************************************************)
NonIncreasing(s) == \A i \in 1..(Len(s) - 1) : get_score(s[i]) >= get_score(s[i + 1])

\* the bag of the elements of a sequence
BagOf(s) == [x \in {s[i] : i \in DOMAIN s} |-> Cardinality({i \in DOMAIN s : s[i] = x})]

Did(op) == last.op = op /\ ~last.raised

\* C10: after sort_key(key) every adjacent pair of the key's bucket has
\* a.score >= b.score and the bucket holds the same bag of page tuples as before;
\* scores inserted in the order low, high, middle come out high, middle, low.
C10_SortInvariant ==
    Did("sort_key") =>
        /\ NonIncreasing(topDict[last.key])
        /\ BagOf(topDict[last.key]) = BagOf(last.before[last.key])
        /\ \A p, q \in Pages :
             last.before[last.key] = <<<<1, p>>, <<3, q>>, <<2, p>>>>
                => topDict[last.key] = <<<<3, q>>, <<2, p>>, <<1, p>>>>

C10_Witness ==
    /\ Did("sort_key")
    /\ \E p, q \in Pages : last.before[last.key] = <<<<1, p>>, <<3, q>>, <<2, p>>>>
    /\ [i \in 1..3 |-> get_score(topDict[last.key][i])] = <<3, 2, 1>>

\* the page tuples of s that carry the score sc, in the order in which they stand in s
WithScore(s, sc) ==
    LET Test(pageTuple) == get_score(pageTuple) = sc
    IN  SelectSeq(s, Test)

\* C11: sort_key is a stable descending sort: the page tuples of one score stand
\* after the sort in the same relative order in which they stood before it.
C11_SortStable ==
    Did("sort_key") =>
        \A sc \in Scores :
            WithScore(topDict[last.key], sc) = WithScore(last.before[last.key], sc)

C11_Witness ==
    /\ Did("sort_key")
    /\ \E p, q \in Pages :
         /\ p # q
         /\ last.before[last.key] = <<<<1, p>>, <<1, q>>, <<2, p>>>>
         /\ topDict[last.key] = <<<<2, p>>, <<1, p>>, <<1, q>>>>

\* every order in which the page tuples of s can have been appended
Orderings(s) == {[i \in DOMAIN s |-> s[p[i]]] : p \in Permutations(DOMAIN s)}

ScoresOf(s) == [i \in DOMAIN s |-> get_score(s[i])]

\* in s, page tuples of one score are page tuples of one page
NoTies(s) == \A i, j \in DOMAIN s : get_score(s[i]) = get_score(s[j]) => s[i] = s[j]

\* C12 (as stated): whatever the order in which the same page tuples were
\* appended to a key's bucket, sort_key leaves the same sequence of page tuples,
\* page tuples of equal score and different pages included.
C12_OrderByScoreAlone ==
    Did("sort_key") =>
        \A t \in Orderings(last.before[last.key]) : SortedBucket(t) = topDict[last.key]

\* C12 (amended): whatever the order in which the same page tuples were appended,
\* sort_key leaves the same sequence of scores, and the same sequence of page
\* tuples when no two page tuples of different pages have the same score.
C12_ScoresDetermined ==
    Did("sort_key") =>
        \A t \in Orderings(last.before[last.key]) :
            /\ ScoresOf(SortedBucket(t)) = ScoresOf(topDict[last.key])
            /\ NoTies(t) => SortedBucket(t) = topDict[last.key]

C12_Witness ==
    /\ Did("sort_key")
    /\ ~NoTies(last.before[last.key])
    /\ \E t \in Orderings(last.before[last.key]) :
         /\ SortedBucket(t) # topDict[last.key]
         /\ ScoresOf(SortedBucket(t)) = ScoresOf(topDict[last.key])
         /\ ScoresOf(t) # ScoresOf(topDict[last.key])

\* C13: for a key of the table and n >= 0, search_full(key, n) returns exactly
\* min(n, length of the bucket) page tuples, the first ones of the bucket in the
\* order in which the bucket stands.
C13_TopNBound ==
    (Did("search_full") /\ last.n >= 0) =>
        /\ Len(last.result) = Min(last.n, Len(last.before[last.key]))
        /\ last.result = SubSeq(last.before[last.key], 1, Len(last.result))

C13_Witness ==
    /\ Did("search_full")
    /\ last.n = 2
    /\ Len(last.before[last.key]) = 3
    /\ last.result = SubSeq(last.before[last.key], 1, 2)

\* C14: search_full changes nothing in the table: the keys and every bucket,
\* the searched one included, are as before the call; a bucket that is not
\* sorted stays unsorted and the result follows its unsorted order.
C14_SearchNoSideEffect ==
    Did("search_full") =>
        /\ topDict = last.before
        /\ last.result = SliceTo(last.before[last.key], last.n)

C14_Witness ==
    /\ Did("search_full")
    /\ last.n >= 2
    /\ ~NonIncreasing(last.result)
    /\ ~NonIncreasing(topDict[last.key])
    /\ topDict = last.before

\* C15: after kill_smalls(n) no key of the table has a bucket shorter than n,
\* the keys removed are exactly those whose bucket was shorter than n, and every
\* key that stays keeps its bucket, content and order.
C15_PrunePostcondition ==
    Did("kill_smalls") =>
        /\ \A key \in DOMAIN topDict : Len(topDict[key]) >= last.n
        /\ DOMAIN last.before \ DOMAIN topDict
             = {key \in DOMAIN last.before : Len(last.before[key]) < last.n}
        /\ DOMAIN topDict \subseteq DOMAIN last.before
        /\ \A key \in DOMAIN topDict : topDict[key] = last.before[key]

C15_Witness ==
    /\ Did("kill_smalls")
    /\ last.n = 2
    /\ \E small, big \in DOMAIN last.before :
         /\ Len(last.before[small]) = 1
         /\ Len(last.before[big]) = 2
         /\ ~NonIncreasing(last.before[big])
         /\ DOMAIN topDict = {big}
         /\ topDict[big] = last.before[big]

\* C16: remove_key of a key the table does not hold raises no error and leaves
\* the table as it was, so that removing a key twice is as removing it once.
C16_RemoveMissingNoOp ==
    (last.op = "remove_key" /\ last.key \notin DOMAIN last.before) =>
        /\ ~last.raised
        /\ topDict = last.before

\* C17: insert_pageTuple on a key of the table puts the page tuple at the end of
\* that key's bucket and changes no other bucket; on a key the table does not
\* hold it raises an error and leaves the table as it was: no bucket is made
\* for the key and no bucket is changed.
C17_InsertOrFail ==
    (last.op = "insert_pageTuple") =>
        IF last.key \in DOMAIN last.before
          THEN /\ ~last.raised
               /\ DOMAIN topDict = DOMAIN last.before
               /\ topDict[last.key] = last.before[last.key] \o <<last.pageTuple>>
               /\ \A key \in DOMAIN topDict \ {last.key} : topDict[key] = last.before[key]
          ELSE /\ last.raised
               /\ last.key \notin DOMAIN topDict
               /\ topDict = last.before

C17_Witness ==
    /\ last.op = "insert_pageTuple"
    /\ last.raised
    /\ last.key = "mit"
    /\ DOMAIN topDict = {"harvard", "yale"}
    /\ Len(topDict["harvard"]) = 2
    /\ Len(topDict["yale"]) = 1
    /\ topDict = last.before

\* the tokens of a list
TokensOf(pageTokens) == {pageTokens[i] : i \in DOMAIN pageTokens}

\* C18: tokens of a page that are not keys of the table are passed over:
\* bucket_page puts exactly one page tuple of the page at the end of the bucket
\* of every token of the page that is a key, wherever the other tokens stand in
\* the iteration, leaves the other buckets as they were and makes no bucket.
C18_UnknownTokensSkipped ==
    Did("bucket_page") =>
        /\ DOMAIN topDict = DOMAIN last.before
        /\ \A key \in DOMAIN topDict :
             IF key \in TokensOf(last.pageTokens)
               THEN /\ Len(topDict[key]) = Len(last.before[key]) + 1
                    /\ SubSeq(topDict[key], 1, Len(last.before[key])) = last.before[key]
                    /\ topDict[key][Len(topDict[key])][2] = last.pageObj
               ELSE topDict[key] = last.before[key]

C18_Witness ==
    /\ Did("bucket_page")
    /\ last.pageTokens = <<"mit", "harvard", "yale">>
    /\ DOMAIN topDict = {"harvard", "yale"}
    /\ Len(topDict["harvard"]) = Len(last.before["harvard"]) + 1
    /\ Len(topDict["yale"]) = Len(last.before["yale"]) + 1

\* the page tuples of a bucket, as a set
PostingSet(s) == {s[i] : i \in DOMAIN s}

\* two tables with the same keys and, for every key, the same set of page tuples
SameStore(a, b) ==
    /\ DOMAIN a = DOMAIN b
    /\ \A key \in DOMAIN a : PostingSet(a[key]) = PostingSet(b[key])

\* C19: a load of the file that save wrote from a table S gives a table with the
\* keys of S and, for every key, the set of page tuples (scores and pages) of S.
C19_RoundTrip ==
    (last.op = "load" /\ snapshot.state # "absent") =>
        /\ ~last.raised
        /\ SameStore(topDict, snapshot.of)

\* C20: load replaces the whole table: after it the table holds exactly the keys
\* and page tuples of the file; no key and no page tuple that the table held
\* before the load and the file does not hold is left, and nothing is merged.
C20_LoadReplaces ==
    Did("load") =>
        /\ DOMAIN topDict = DOMAIN snapshot.value
        /\ \A key \in DOMAIN topDict : topDict[key] = snapshot.value[key]
        /\ \A key \in DOMAIN last.before \ DOMAIN snapshot.value : key \notin DOMAIN topDict

C20_Witness ==
    /\ Did("load")
    /\ "mit" \in DOMAIN last.before
    /\ "mit" \notin DOMAIN topDict
    /\ "harvard" \in DOMAIN last.before
    /\ Len(last.before["harvard"]) = 2
    /\ "harvard" \in DOMAIN topDict
    /\ topDict["harvard"] = <<>>

\* C21: after sort_all every bucket of the table is non-increasing by score, the
\* keys are the keys of before and every bucket holds the bag of page tuples it
\* held before.
C21_SortAll ==
    Did("sort_all") =>
        /\ DOMAIN topDict = DOMAIN last.before
        /\ \A key \in DOMAIN topDict :
             /\ NonIncreasing(topDict[key])
             /\ BagOf(topDict[key]) = BagOf(last.before[key])

C21_Witness ==
    /\ Did("sort_all")
    /\ DOMAIN topDict = {"harvard", "yale"}
    /\ ~NonIncreasing(last.before["yale"])
    /\ Len(last.before["harvard"]) = 1
    /\ NonIncreasing(topDict["yale"])

\* C22: once the cancellation signal is raised no worker takes another location
\* from the queue or puts one into it, and every worker leaves its loop.
C22_CancelStopsWorkers ==
    [][ cancelled =>
          /\ gets' = gets
          /\ \A w \in Workers : pc[w] \in {"put", "wait"} => enqIdx'[w] = enqIdx[w]
      ]_vars

SeedSet == {fix_url(urlList[i]) : i \in DOMAIN urlList}

RECURSIVE SumOver(_, _)
SumOver(f, S) ==
    IF S = {} THEN 0
    ELSE LET x == CHOOSE y \in S : TRUE IN f[x] + SumOver(f, S \ {x})

\* the number of scrape_url calls so far
TotalFetched == SumOver(fetched, Hosts)

C26_ClearIsClipZero ==
    /\ (Did("clear_key") /\ last.key \in DOMAIN last.before) =>
          /\ topDict[last.key] = <<>>
          /\ topDict = [last.before EXCEPT ![last.key] = SliceTo(@, 0)]
    /\ (Did("clip_key") /\ last.n >= 0) =>
          /\ DOMAIN topDict = DOMAIN last.before
          /\ Len(topDict[last.key]) = Min(last.n, Len(last.before[last.key]))
          /\ topDict[last.key] = SubSeq(last.before[last.key], 1, Len(topDict[last.key]))
          /\ \A key \in DOMAIN topDict \ {last.key} : topDict[key] = last.before[key]
          /\ last.n = 0 => topDict = [last.before EXCEPT ![last.key] = <<>>]

C26_Witness ==
    /\ Did("clip_key")
    /\ last.n = 0
    /\ DOMAIN last.before = {"harvard", "yale"}
    /\ Len(last.before[last.key]) = 2
    /\ topDict[last.key] = <<>>
    /\ \E key \in DOMAIN topDict : key # last.key /\ Len(topDict[key]) = 1

InFlight == gets - dones

\* C28: the number of locations in flight is at least 0 and at most the number
\* of workers; it is the number of workers past a get without the task_done
\* that answers it, so that no worker holds two; task_done is never called more
\* often than get has returned.
C28_InFlightBounds ==
    /\ InFlight >= 0
    /\ InFlight <= workerNum
    /\ InFlight = Cardinality({w \in Workers : pc[w] \notin {"off", "get"}})
    /\ dones <= gets
    /\ unfinished = Len(urlQueue) + InFlight

C28_Witness ==
    /\ workerNum = 2
    /\ InFlight = 2
    /\ dones >= 1
    /\ \A w \in Workers : pc[w] = "scrape"

\* C29: in build_corr_dict the template emptyTokenDict stays empty: after any
\* number of pages and flushes every counter that emptyTokenDict holds is
\* empty, and the curTokenDict taken from it after a flush starts with no
\* counts of earlier pages.
C29_TemplateStaysEmpty ==
    /\ \A token \in DOMAIN emptyTokenDict :
           DOMAIN heap[emptyTokenDict[token]] = {}
    /\ (pageI > 1 /\ (pageI - 1) % bufferSize = 0) =>
           \A token \in DOMAIN curTokenDict :
               DOMAIN heap[curTokenDict[token]] = {}

\* C30: no scraped page is lost by the periodic checkpoint: when scrape_urlList
\* has returned, every page that a worker scraped and added to testSimple is
\* held by some checkpoint file.  (The scrape of a location outside Flaky
\* always returns, so such a location that was fetched was added.)
C30_NoPageLost ==
    pc[0] = "returned" =>
        \A h \in Hosts :
            (fetched[h] >= 1 /\ U(h) \notin Flaky) =>
                \E name \in DOMAIN files : BagIn(U(h), files[name])

\* C31: add_key on a key that has a bucket does not keep the bucket: the key
\* maps to an empty list afterwards, whatever it held, and every other bucket
\* is as it was; on a key the table does not hold it makes an empty bucket.
C31_AddKeyReplaces ==
    Did("add_key") =>
        /\ DOMAIN topDict = DOMAIN last.before \cup {last.key}
        /\ topDict[last.key] = <<>>
        /\ \A key \in DOMAIN last.before \ {last.key} : topDict[key] = last.before[key]

C31_Witness ==
    /\ Did("add_key")
    /\ last.key \in DOMAIN last.before
    /\ Len(last.before[last.key]) >= 1
    /\ topDict[last.key] = <<>>
    /\ \E key \in DOMAIN topDict : Len(topDict[key]) >= 1

\* how many page tuples of a bucket hold the page
CountOf(s, pageObj) == Cardinality({i \in DOMAIN s : s[i][2] = pageObj})

\* C32: the table does not drop a page it already holds: every bucket_page puts
\* one more page tuple of the page into the bucket of every token of the page
\* that is a key, however many page tuples of that page the bucket holds
\* already, so bucketing a page twice leaves two page tuples of it there.
C32_NoDedup ==
    Did("bucket_page") =>
        \A key \in DOMAIN topDict \cap TokensOf(last.pageTokens) :
            /\ CountOf(topDict[key], last.pageObj)
                 = CountOf(last.before[key], last.pageObj) + 1
            /\ Len(topDict[key]) = Len(last.before[key]) + 1

C32_Witness ==
    /\ Did("bucket_page")
    /\ last.pageObj.url = "a.org"
    /\ TokensOf(last.pageTokens) = {"harvard", "yale"}
    /\ DOMAIN topDict = {"harvard", "yale"}
    /\ \A key \in DOMAIN topDict :
         /\ CountOf(last.before[key], last.pageObj) = 1
         /\ CountOf(topDict[key], last.pageObj) = 2
         /\ topDict[key][1] = topDict[key][2]

\* the places of a bucket whose page does not have the url
KeptPlaces(s, pageUrl) == {i \in DOMAIN s : s[i][2].url # pageUrl}

\* the j-th of a set of places, counted from the lowest
PlaceOf(places, j) == CHOOSE i \in places : Cardinality({k \in places : k <= i}) = j

\* C33: remove_value(key, url) takes out of the bucket of the key every page
\* tuple whose page has the url and no other, keeps the others in the order
\* they had, so that a sorted bucket stays sorted, and leaves every other
\* bucket and the keys as they were.
C33_RemoveValue ==
    Did("remove_value") =>
        LET old == last.before[last.key]
            new == topDict[last.key]
            kept == KeptPlaces(old, last.url)
        IN  /\ DOMAIN topDict = DOMAIN last.before
            /\ \A key \in DOMAIN topDict \ {last.key} : topDict[key] = last.before[key]
            /\ Len(new) = Cardinality(kept)
            /\ \A j \in DOMAIN new : new[j] = old[PlaceOf(kept, j)]
            /\ NonIncreasing(old) => NonIncreasing(new)

C33_Witness ==
    /\ Did("remove_value")
    /\ Len(last.before[last.key]) = MaxPostings
    /\ Len(topDict[last.key]) = 2
    /\ last.before[last.key][2][2].url = last.url
    /\ NonIncreasing(last.before[last.key])
    /\ get_score(topDict[last.key][1]) > get_score(topDict[last.key][2])
    /\ topDict[last.key] = <<last.before[last.key][1], last.before[last.key][MaxPostings]>>

====
